---- MODULE Spec2Model ----
(***************************************************************************)
(* A model of LOGICOM's batch utilities:                                   *)
(*   - utils/utils.py         save_debate_in_excel: the lock-protected     *)
(*                            append to all_debates_summary.xlsx           *)
(*   - utils/multiple_runs.py main / run_single_debate: the run matrix     *)
(* SpecStore is the result store under NumCallers concurrent callers,      *)
(* SpecRuns is one run of the orchestrator's main().                       *)
(***************************************************************************)
EXTENDS Integers, Sequences, FiniteSets, TLC

VARIABLES
    \* ---- utils.py: save_debate_in_excel ----
    excel_file,   \* all_debates_summary.xlsx: whether it exists, the rows
                  \* stored in it, whether pd.read_excel can parse it
    held,         \* the callers whose FileLock holds all_debates_summary.xlsx.lock
    pc,           \* pc[c]: where caller c is inside save_debate_in_excel
    elapsed,      \* elapsed[c]: time units c has waited for the lock so far
    df,           \* df[c]: the dataframe caller c built (its rows)
    read_failed,  \* read_failed[c]: pd.read_excel raised for caller c
    cause,        \* cause[c]: why the call of c ended ("none" while it runs)
    result,       \* result[c]: "pending", or the returned "True" / "False"
    logged,       \* the records handed to logger: [level, msg, caller]
    \* ---- multiple_runs.py: main ----
    args,           \* the parsed command line
    config,         \* what settings.yaml holds
    mpc,            \* where main() is
    helper_types,   \* main's helper_types
    runs,           \* main's runs
    total_runs,     \* main's total_runs
    next_run,       \* index into runs of the next entry of the execute loop
    successful_runs,
    failed_runs,
    invoked,        \* the commands given to subprocess.run, in order
    last_outcome,   \* how the latest call of subprocess.run ended
    printed,        \* the kinds of the blocks main printed, in order
    exit_status,    \* the process exit status, -1 while main runs
    \* ---- log_main.py: MyJSONFormatter and the two filters ----
    fmt_keys,     \* the formatter's fmt_keys: <<[key, source], ...>> in dict order
    record,       \* the LogRecord: [msg, created, attrs]
    lpc,          \* how far the record has got
    accepted,     \* the channels whose filter let the record through
    envelope,     \* the dict _prepare_log_dict returned, in key order
    fmt_raised    \* _prepare_log_dict raised AttributeError

storeVars == <<excel_file, held, pc, elapsed, df, read_failed, cause, result, logged>>
runVars == <<args, config, mpc, helper_types, runs, total_runs, next_run,
             successful_runs, failed_runs, invoked, last_outcome, printed,
             exit_status>>
logVars == <<fmt_keys, record, lpc, accepted, envelope, fmt_raised>>
vars == <<storeVars, runVars, logVars>>

(***************************************************************************)
(* Bounds of the model.                                                    *)
(***************************************************************************)
NumCallers == 3    \* concurrent callers of save_debate_in_excel
TickStep == 10     \* time units one Tick lets pass
MaxHelpers == 2    \* longest --helper_types list
MaxIndexes == 2    \* longest --claim_indexes list
MaxFmtKeys == 2    \* most entries of fmt_keys
NumMortal == 2     \* callers in the runs in which a process may die

\* FileLock(lock_file, timeout=30)
LockTimeout == 30

Callers == 1 .. NumCallers

RECURSIVE SeqsUpTo(_, _)
\* the sequences over S of length at most n
SeqsUpTo(S, n) ==
    IF n = 0 THEN {<<>>}
    ELSE LET shorter == SeqsUpTo(S, n - 1)
         IN  shorter \cup {Append(s, x) : s \in {t \in shorter : Len(t) = n - 1}, x \in S}

(***************************************************************************)
(* utils.py: save_debate_in_excel                                          *)
(***************************************************************************)

\* the arguments caller c passes: distinct chat_id per caller; odd callers
\* pass a claim_data without the 'claim' key
claim_data(c) == IF c % 2 = 0 THEN [claim |-> "claim text"] ELSE [k \in {} |-> ""]

\* dict.get(key, default)
DictGet(d, key, default) == IF key \in DOMAIN d THEN d[key] ELSE default

\* the row save_debate_in_excel builds from its arguments
new_row(c) ==
    [topic_id    |-> 1,
     claim       |-> DictGet(claim_data(c), "claim", "Unknown claim"),
     helper_type |-> "vanilla",
     result      |-> c % 3,
     rounds      |-> c,
     chat_id     |-> c]

\* a row stored by an earlier run
old_row ==
    [topic_id |-> 0, claim |-> "old claim", helper_type |-> "fallacy",
     result |-> 1, rounds |-> 4, chat_id |-> 0]

AbsentFile == [exists |-> FALSE, parsable |-> FALSE, rows |-> <<>>]
TableFile(rows) == [exists |-> TRUE, parsable |-> TRUE, rows |-> rows]

\* a file whose content no longer parses: the rows stored in it cannot be
\* read back
Damaged(file) == [exists |-> TRUE, parsable |-> FALSE, rows |-> file.rows]

\* the states all_debates_summary.xlsx may be in when the callers start
InitialFiles ==
    {AbsentFile, TableFile(<<>>), TableFile(<<old_row>>),
     Damaged(TableFile(<<old_row>>))}

\* the part of a call during which the caller is inside `with lock:`
InLock == {"locked", "loaded", "saved", "failed"}

LogRec(level, msg, c) == [level |-> level, msg |-> msg, caller |-> c]

\* save_debate_in_excel is called: FileLock(lock_file, timeout=30) is built
\* and `with lock:` starts to wait
Call(c) ==
    /\ pc[c] = "idle"
    /\ pc' = [pc EXCEPT ![c] = "waiting"]
    /\ elapsed' = [elapsed EXCEPT ![c] = 0]
    /\ UNCHANGED <<excel_file, held, df, read_failed, cause, result, logged, runVars, logVars>>

\* LockFree as it would be if every caller locked a file of its own
LockFree_PerCallerFile == TRUE

\* whether an attempt to take the lock file succeeds: nobody holds it
LockFree == held = {}

\* `with lock:` acquires the lock file
Acquire(c) ==
    /\ pc[c] = "waiting"
    /\ LockFree
    /\ held' = held \cup {c}
    /\ pc' = [pc EXCEPT ![c] = "locked"]
    /\ UNCHANGED <<excel_file, elapsed, df, read_failed, cause, result, logged, runVars, logVars>>

\* time passes for every caller that waits for the lock
Tick ==
    /\ \E c \in Callers : pc[c] = "waiting" /\ elapsed[c] <= LockTimeout
    /\ elapsed' = [c \in Callers |->
                      IF pc[c] = "waiting" /\ elapsed[c] <= LockTimeout
                      THEN elapsed[c] + TickStep ELSE elapsed[c]]
    /\ UNCHANGED <<excel_file, held, pc, df, read_failed, cause, result, logged, runVars, logVars>>

\* TimeoutResult as it would be if the Timeout handler fell through to
\* the success return
TimeoutResult_Success == "True"

\* what the call returns when `with lock:` raises Timeout
TimeoutResult == "False"

\* the lock is held by another caller and more than `timeout` has passed:
\* `with lock:` raises Timeout, the handler logs it and returns False
Timeout(c) ==
    /\ pc[c] = "waiting"
    /\ ~LockFree
    /\ elapsed[c] > LockTimeout
    /\ pc' = [pc EXCEPT ![c] = "done"]
    /\ cause' = [cause EXCEPT ![c] = "timeout"]
    /\ result' = [result EXCEPT ![c] = TimeoutResult]
    /\ logged' = logged \cup {LogRec("error", "Error saving debate to Excel", c)}
    /\ UNCHANGED <<excel_file, held, elapsed, df, read_failed, runVars, logVars>>

\* ConcatRow as it would be if the new frame replaced the loaded one
ConcatRow_Overwrite(rows, row) == <<row>>

\* ConcatRow as it would be with the operands of pd.concat swapped
ConcatRow_Prepend(rows, row) == <<row>> \o rows

\* the rows pd.read_excel gives for a file that parses, with the new row
\* concatenated at the end
ConcatRow(rows, row) == Append(rows, row)

\* RecoveredFrame as it would be if the handler built an empty dataframe
RecoveredFrame_Empty(c) == <<>>

\* the dataframe built when the file exists but pd.read_excel raises
RecoveredFrame(c) == <<new_row(c)>>

\* os.path.exists, pd.read_excel and pd.concat, or the new dataframe
Load(c) ==
    /\ pc[c] = "locked"
    /\ IF excel_file.exists
       THEN IF excel_file.parsable
            THEN /\ df' = [df EXCEPT ![c] = ConcatRow(excel_file.rows, new_row(c))]
                 /\ UNCHANGED <<read_failed, logged>>
            ELSE /\ df' = [df EXCEPT ![c] = RecoveredFrame(c)]
                 /\ read_failed' = [read_failed EXCEPT ![c] = TRUE]
                 /\ logged' = logged \cup
                        {LogRec("error", "Error reading existing Excel file", c)}
       ELSE /\ df' = [df EXCEPT ![c] = <<new_row(c)>>]
            /\ UNCHANGED <<read_failed, logged>>
    /\ pc' = [pc EXCEPT ![c] = "loaded"]
    /\ UNCHANGED <<excel_file, held, elapsed, cause, result, runVars, logVars>>

\* df.to_excel(excel_file, index=False) writes the whole dataframe, then the
\* success is logged
Save(c) ==
    /\ pc[c] = "loaded"
    /\ excel_file' = TableFile(df[c])
    /\ logged' = logged \cup {LogRec("info", "Successfully updated debate summary", c)}
    /\ pc' = [pc EXCEPT ![c] = "saved"]
    /\ UNCHANGED <<held, elapsed, df, read_failed, cause, result, runVars, logVars>>

\* df.to_excel raises: the file is as it was (it could not be opened) or is
\* left half-written, which no longer parses
SaveFails(c) ==
    /\ pc[c] = "loaded"
    /\ excel_file' \in {excel_file, Damaged(excel_file)}
    /\ pc' = [pc EXCEPT ![c] = "failed"]
    /\ UNCHANGED <<held, elapsed, df, read_failed, cause, result, logged, runVars, logVars>>

\* `return True` leaves `with lock:`, which releases the lock file
ReturnTrue(c) ==
    /\ pc[c] = "saved"
    /\ held' = held \ {c}
    /\ pc' = [pc EXCEPT ![c] = "done"]
    /\ cause' = [cause EXCEPT ![c] = "saved"]
    /\ result' = [result EXCEPT ![c] = "True"]
    /\ UNCHANGED <<excel_file, elapsed, df, read_failed, logged, runVars, logVars>>

\* ReturnFalse as it would be if the exception left the lock file taken
ReturnFalse_KeepsLock(c) ==
    /\ pc[c] = "failed"
    /\ pc' = [pc EXCEPT ![c] = "done"]
    /\ cause' = [cause EXCEPT ![c] = "write_error"]
    /\ result' = [result EXCEPT ![c] = "False"]
    /\ logged' = logged \cup {LogRec("error", "Error saving debate to Excel", c)}
    /\ UNCHANGED <<excel_file, held, elapsed, df, read_failed, runVars, logVars>>

\* the exception of to_excel leaves `with lock:`, which releases the lock
\* file; `except Exception` logs it and returns False
ReturnFalse(c) ==
    /\ pc[c] = "failed"
    /\ held' = held \ {c}
    /\ pc' = [pc EXCEPT ![c] = "done"]
    /\ cause' = [cause EXCEPT ![c] = "write_error"]
    /\ result' = [result EXCEPT ![c] = "False"]
    /\ logged' = logged \cup {LogRec("error", "Error saving debate to Excel", c)}
    /\ UNCHANGED <<excel_file, elapsed, df, read_failed, runVars, logVars>>

\* HeldAfterDeath as it would be with a flag file, which outlives its writer
HeldAfterDeath_FlagFile(c) == held

\* who holds the lock file once the process of caller c is gone: FileLock
\* is a lock of the operating system on the open lock file, which ends with
\* the process that took it
HeldAfterDeath(c) == held \ {c}

\* the process of a caller dies inside `with lock:`; if it dies while
\* to_excel writes, the file may be left half-written
WriterDies(c) ==
    /\ pc[c] \in InLock
    /\ held' = HeldAfterDeath(c)
    /\ pc' = [pc EXCEPT ![c] = "crashed"]
    /\ excel_file' \in IF pc[c] = "loaded" THEN {excel_file, Damaged(excel_file)}
                       ELSE {excel_file}
    /\ UNCHANGED <<elapsed, df, read_failed, cause, result, logged, runVars, logVars>>

(***************************************************************************)
(* multiple_runs.py: load_config, get_available_helper_types,              *)
(* run_single_debate, main                                                 *)
(***************************************************************************)

\* the helper types settings.yaml declares under agent_configurations, in
\* the order it declares them
KnownHelpers == <<"vanilla", "fallacy">>

\* the names a --helper_types list is drawn from
HelperNames == {"vanilla", "fallacy", "bogus"}

\* the values a --claim_indexes list is drawn from
IndexValues == {1, 2}

\* claim_index = None
NoneIndex == -1

\* what settings.yaml may hold: a mapping with agent_configurations, a
\* mapping without it, a file that cannot be opened or parsed, and a file
\* whose YAML is not a mapping (an empty file loads as None)
ConfigFiles ==
    {[kind |-> "mapping", helpers |-> KnownHelpers],
     [kind |-> "mapping", helpers |-> <<>>],
     [kind |-> "unreadable", helpers |-> <<>>],
     [kind |-> "notmapping", helpers |-> <<>>]}

\* the command lines: an absent --helper_types or --claim_indexes is <<>>
\* (nargs="+" gives no empty list)
ArgSets ==
    [helper_types  : SeqsUpTo(HelperNames, MaxHelpers),
     claim_indexes : SeqsUpTo(IndexValues, MaxIndexes),
     sequential    : BOOLEAN,
     list_helpers  : BOOLEAN]

\* load_config as it would be if the handler fell back to a built-in
\* configuration
load_config_Fallback(cfg) ==
    IF cfg.kind = "unreadable" THEN [kind |-> "mapping", helpers |-> KnownHelpers]
    ELSE cfg

\* load_config: the loaded YAML, {} when open or safe_load raised
load_config(cfg) ==
    IF cfg.kind = "unreadable" THEN [kind |-> "mapping", helpers |-> <<>>] ELSE cfg

\* get_available_helper_types: config.get(...).keys() as a list; raised when
\* the loaded YAML has no .get
get_available_helper_types(cfg) ==
    LET loaded == load_config(cfg)
    IN  IF loaded.kind = "mapping"
        THEN [raised |-> FALSE, helpers |-> loaded.helpers]
        ELSE [raised |-> TRUE, helpers |-> <<>>]

InSeq(x, s) == \E i \in 1 .. Len(s) : s[i] = x

\* InvalidHelpers as it would be if only the first helper type were checked
InvalidHelpers_FirstOnly(hts, available) ==
    IF hts # <<>> /\ ~InSeq(hts[1], available) THEN <<hts[1]>> ELSE <<>>

\* invalid_helpers = [h for h in helper_types if h not in available_helpers]
InvalidHelpers(hts, available) ==
    SelectSeq(hts, LAMBDA h : ~InSeq(h, available))

\* RunsFor as it would be if the prepare loop did not test args.sequential
RunsFor_IgnoreSequential(h, claim_indexes, sequential) ==
    IF claim_indexes # <<>>
    THEN [i \in 1 .. Len(claim_indexes) |-> <<h, claim_indexes[i]>>]
    ELSE << <<h, NoneIndex>> >>

\* RunsFor as it would be without the len(args.claim_indexes) == 1 test
RunsFor_FirstIndex(h, claim_indexes, sequential) ==
    IF sequential /\ claim_indexes # <<>>
    THEN [i \in 1 .. Len(claim_indexes) |-> <<h, claim_indexes[i]>>]
    ELSE << <<h, IF claim_indexes # <<>> THEN claim_indexes[1] ELSE NoneIndex>> >>

\* the entries the prepare loop appends for one helper type
RunsFor(h, claim_indexes, sequential) ==
    IF sequential /\ claim_indexes # <<>>
    THEN [i \in 1 .. Len(claim_indexes) |-> <<h, claim_indexes[i]>>]
    ELSE << <<h, IF Len(claim_indexes) = 1 THEN claim_indexes[1] ELSE NoneIndex>> >>

\* BuildRuns as it would be with the two loops of the sequential case
\* nested the other way round
BuildRuns_IndexMajor(hts, claim_indexes, sequential) ==
    IF sequential /\ claim_indexes # <<>>
    THEN [k \in 1 .. Len(hts) * Len(claim_indexes) |->
             <<hts[((k - 1) % Len(hts)) + 1],
               claim_indexes[((k - 1) \div Len(hts)) + 1]>>]
    ELSE [k \in 1 .. Len(hts) |->
             <<hts[k], IF Len(claim_indexes) = 1 THEN claim_indexes[1]
                       ELSE NoneIndex>>]

RECURSIVE BuildRuns(_, _, _)
\* the prepare loop over helper_types
BuildRuns(hts, claim_indexes, sequential) ==
    IF hts = <<>> THEN <<>>
    ELSE RunsFor(Head(hts), claim_indexes, sequential)
         \o BuildRuns(Tail(hts), claim_indexes, sequential)

\* the command run_single_debate builds (the path flags keep their defaults);
\* claim_index = NoneIndex: no --claim_index flag
Cmd(entry) == [helper_type |-> entry[1], claim_index |-> entry[2]]

\* how a call of subprocess.run can end
Outcomes == {"exit0", "nonzero", "exception"}

\* run_single_debate's return value
RunSucceeded(outcome) == outcome = "exit0"

\* Tally as it would be without the else branch
Tally_NoElse(counts, success) ==
    IF success THEN <<counts[1] + 1, counts[2]>> ELSE counts

\* the counters <<successful_runs, failed_runs>> after one more run
Tally(counts, success) ==
    IF success THEN <<counts[1] + 1, counts[2]>> ELSE <<counts[1], counts[2] + 1>>

\* NextRun as it would be if the execute loop broke off at a failed run
NextRun_StopOnFailure(i, success) == IF success THEN i + 1 ELSE Len(runs) + 1

\* the entry the execute loop takes after the one at index i
NextRun(i, success) == i + 1

\* ExitStatus as it would be without the sys.exit(1)
ExitStatus_AlwaysZero(failed) == 0

\* the process exit status after the summary
ExitStatus(failed) == IF failed > 0 THEN 1 ELSE 0

PrintRec(kind, nums) == [kind |-> kind, nums |-> nums]

\* an exception nothing catches: the traceback is printed, the status is 1
Crash ==
    /\ mpc' = "exited"
    /\ exit_status' = 1
    /\ printed' = Append(printed, PrintRec("traceback", <<>>))

\* main returns
Return(kind) ==
    /\ mpc' = "exited"
    /\ exit_status' = 0
    /\ printed' = Append(printed, PrintRec(kind, <<>>))

\* --list_helpers: print the available helper types and return
ListHelpers ==
    /\ mpc = "start"
    /\ args.list_helpers
    /\ IF get_available_helper_types(config).raised THEN Crash ELSE Return("helpers")
    /\ UNCHANGED <<storeVars, logVars, args, config, helper_types, runs, total_runs, next_run,
                   successful_runs, failed_runs, invoked, last_outcome>>

\* "Get helper types to run" and the check that there are any
GetHelperTypes ==
    /\ mpc = "start"
    /\ ~args.list_helpers
    /\ LET available == get_available_helper_types(config)
       IN  IF args.helper_types # <<>>
           THEN /\ helper_types' = args.helper_types
                /\ mpc' = "validate"
                /\ UNCHANGED <<printed, exit_status>>
           ELSE IF available.raised
           THEN Crash /\ UNCHANGED helper_types
           ELSE /\ helper_types' = available.helpers
                /\ IF available.helpers = <<>>
                   THEN Return("no_helper_types")
                   ELSE mpc' = "validate" /\ UNCHANGED <<printed, exit_status>>
    /\ UNCHANGED <<storeVars, logVars, args, config, runs, total_runs, next_run,
                   successful_runs, failed_runs, invoked, last_outcome>>

\* "Validate helper types exist"
ValidateHelperTypes ==
    /\ mpc = "validate"
    /\ LET available == get_available_helper_types(config)
       IN  IF available.raised
           THEN Crash
           ELSE IF InvalidHelpers(helper_types, available.helpers) # <<>>
           THEN Return("invalid_helper_types")
           ELSE mpc' = "prepare" /\ UNCHANGED <<printed, exit_status>>
    /\ UNCHANGED <<storeVars, logVars, args, config, helper_types, runs, total_runs, next_run,
                   successful_runs, failed_runs, invoked, last_outcome>>

\* "Prepare runs", the printed plan, and the counters set to 0
PrepareRuns ==
    /\ mpc = "prepare"
    /\ runs' = BuildRuns(helper_types, args.claim_indexes, args.sequential)
    /\ total_runs' = Len(runs')
    /\ printed' = Append(printed, PrintRec("plan", <<total_runs'>>))
    /\ successful_runs' = 0
    /\ failed_runs' = 0
    /\ next_run' = 1
    /\ mpc' = "execute"
    /\ UNCHANGED <<storeVars, logVars, args, config, helper_types, invoked, last_outcome,
                   exit_status>>

\* one pass of the execute loop: run_single_debate on the next entry
RunSingleDebate ==
    /\ mpc = "execute"
    /\ next_run <= Len(runs)
    /\ \E outcome \in Outcomes :
          LET success == RunSucceeded(outcome)
              counts == Tally(<<successful_runs, failed_runs>>, success)
          IN  /\ invoked' = Append(invoked, Cmd(runs[next_run]))
              /\ last_outcome' = outcome
              /\ successful_runs' = counts[1]
              /\ failed_runs' = counts[2]
              /\ next_run' = NextRun(next_run, success)
    /\ UNCHANGED <<storeVars, logVars, args, config, mpc, helper_types, runs, total_runs,
                   printed, exit_status>>

\* Summary as it would be if sys.exit(1) came before the prints
Summary_ExitFirst ==
    /\ mpc = "execute"
    /\ next_run > Len(runs)
    /\ printed' = IF failed_runs > 0 THEN printed
                  ELSE Append(printed,
                         PrintRec("summary", <<total_runs, successful_runs, failed_runs>>))
    /\ exit_status' = ExitStatus(failed_runs)
    /\ mpc' = "exited"
    /\ UNCHANGED <<storeVars, logVars, args, config, helper_types, runs, total_runs, next_run,
                   successful_runs, failed_runs, invoked, last_outcome>>

\* the loop is over: the summary is printed, sys.exit(1) if a run failed
Summary ==
    /\ mpc = "execute"
    /\ next_run > Len(runs)
    /\ printed' = Append(printed,
           PrintRec("summary", <<total_runs, successful_runs, failed_runs>>))
    /\ exit_status' = ExitStatus(failed_runs)
    /\ mpc' = "exited"
    /\ UNCHANGED <<storeVars, logVars, args, config, helper_types, runs, total_runs, next_run,
                   successful_runs, failed_runs, invoked, last_outcome>>

(***************************************************************************)
(* log_main.py: MyJSONFormatter._prepare_log_dict, MainDebateFilter,       *)
(* PersuadorHelperFilter                                                   *)
(***************************************************************************)

\* a Python dict is a sequence of [key, val] with distinct keys, in
\* insertion order
DictKeys(d) == [i \in 1 .. Len(d) |-> d[i].key]
HasKey(d, k) == \E i \in 1 .. Len(d) : d[i].key = k
DictVal(d, k) == d[CHOOSE i \in 1 .. Len(d) : d[i].key = k].val

\* d[k] = v: a key the dict has keeps its place
DictPut(d, k, v) ==
    IF HasKey(d, k)
    THEN [i \in 1 .. Len(d) |-> IF d[i].key = k THEN [key |-> k, val |-> v] ELSE d[i]]
    ELSE Append(d, [key |-> k, val |-> v])

\* d.pop(k): the dict without k
DictPop(d, k) == SelectSeq(d, LAMBDA e : e.key # k)

RECURSIVE DictUpdate(_, _)
\* d.update(e)
DictUpdate(d, e) ==
    IF e = <<>> THEN d
    ELSE DictUpdate(DictPut(d, Head(e).key, Head(e).val), Tail(e))

\* the attributes the formatter looks for after the fmt_keys
ActorAttrs == <<"msg_type", "speaker", "receiver", "sender", "round", "topic">>

\* the value an attribute has on a record that carries it
AttrValue(name) ==
    CASE name = "speaker" -> "pro"
      [] name = "receiver" -> "con"
      [] name = "sender" -> "pro"
      [] name = "round" -> "3"
      [] name = "topic" -> "topic"
      [] name = "levelname" -> "INFO"
      [] OTHER -> "?"

\* the msg_type a logging call passes in `extra`, "" for none
MsgTypes == {"", "main debate", "persuador_helper", "system"}

\* the LogRecords: levelname is on every record, msg_type and the other
\* extras only when the logging call passed them
Records ==
    {[msg |-> "hello", created |-> 0,
      attrs |-> [a \in {"levelname"} \cup extras \cup
                       (IF mt = "" THEN {} ELSE {"msg_type"}) |->
                    IF a = "msg_type" THEN mt ELSE AttrValue(a)]] :
        mt \in MsgTypes,
        extras \in SUBSET {"speaker", "receiver", "sender", "round", "topic"}}

\* the keys and the sources fmt_keys entries are drawn from
FmtKeyNames == {"message", "timestamp", "msg", "speaker"}
FmtSources == {"message", "timestamp", "levelname", "speaker"}

\* the fmt_keys dicts: no key twice (None is the empty dict)
FmtKeySets ==
    {fk \in SeqsUpTo([key : FmtKeyNames, source : FmtSources], MaxFmtKeys) :
        \A i, j \in 1 .. Len(fk) : i # j => fk[i].key # fk[j].key}

\* record.getMessage()
getMessage(rec) == rec.msg

\* datetime.fromtimestamp(record.created, tz=utc).isoformat()
IsoFormat(created) ==
    IF created = 0 THEN "1970-01-01T00:00:00+00:00" ELSE "1970-01-01T00:00:01+00:00"

\* the always_include dict
AlwaysInclude(rec) ==
    <<[key |-> "message", val |-> getMessage(rec)],
      [key |-> "timestamp", val |-> IsoFormat(rec.created)]>>

\* hasattr(record, name)
HasAttr(rec, name) == name \in DOMAIN rec.attrs

\* whether getattr(record, name) raises AttributeError
GetAttrRaises(rec, name) == ~HasAttr(rec, name)

\* what getattr gives when it does not raise
GetAttr(rec, name) == IF HasAttr(rec, name) THEN rec.attrs[name] ELSE "None"

RECURSIVE FmtKeysLoop(_, _, _, _)
\* the loop over self.fmt_keys.items(): the message and always_include
\* dicts after it, or raised
FmtKeysLoop(fk, message, always, rec) ==
    IF fk = <<>> THEN [raised |-> FALSE, message |-> message, always |-> always]
    ELSE LET key == Head(fk).key
             val == Head(fk).source
         IN  IF HasKey(always, val)
             THEN FmtKeysLoop(Tail(fk), DictPut(message, key, DictVal(always, val)),
                              DictPop(always, val), rec)
             ELSE IF GetAttrRaises(rec, val)
             THEN [raised |-> TRUE, message |-> <<>>, always |-> <<>>]
             ELSE FmtKeysLoop(Tail(fk), DictPut(message, key, GetAttr(rec, val)),
                              always, rec)

\* ActorStep as it would be without the `attr not in message` test
ActorStep_NoKeyTest(message, attr, rec) ==
    IF HasAttr(rec, attr)
    THEN Append(message, [key |-> attr, val |-> GetAttr(rec, attr)])
    ELSE message

\* one pass of the loop over the extra attributes
ActorStep(message, attr, rec) ==
    IF HasAttr(rec, attr) /\ ~HasKey(message, attr)
    THEN DictPut(message, attr, GetAttr(rec, attr))
    ELSE message

RECURSIVE ActorLoop(_, _, _)
\* the loop over ["msg_type", "speaker", "receiver", "sender", "round", "topic"]
ActorLoop(attrs, message, rec) ==
    IF attrs = <<>> THEN message
    ELSE ActorLoop(Tail(attrs), ActorStep(message, Head(attrs), rec), rec)

\* FinalUpdate as it would be if the computed values were put first
FinalUpdate_Front(message, always) == DictUpdate(always, message)

\* message.update(always_include)
FinalUpdate(message, always) == DictUpdate(message, always)

\* _prepare_log_dict
prepare_log_dict(fk, rec) ==
    LET looped == FmtKeysLoop(fk, <<>>, AlwaysInclude(rec), rec)
    IN  IF looped.raised THEN [raised |-> TRUE, message |-> <<>>]
        ELSE [raised |-> FALSE,
              message |-> FinalUpdate(ActorLoop(ActorAttrs, looped.message, rec),
                                      looped.always)]

\* MainDebateFilter as it would be with "main debate" as getattr's default
MainDebateFilter_Default(rec) ==
    (IF HasAttr(rec, "msg_type") THEN rec.attrs["msg_type"] ELSE "main debate")
        = "main debate"

\* MainDebateFilter.filter
MainDebateFilter(rec) ==
    (IF HasAttr(rec, "msg_type") THEN rec.attrs["msg_type"] ELSE "None")
        = "main debate"

\* PersuadorHelperFilter.filter
PersuadorHelperFilter(rec) ==
    (IF HasAttr(rec, "msg_type") THEN rec.attrs["msg_type"] ELSE "None")
        = "persuador_helper"

\* the main-debate channel's filter is asked about the record
FilterMain ==
    /\ lpc = "emitted"
    /\ accepted' = IF MainDebateFilter(record) THEN accepted \cup {"main debate"}
                   ELSE accepted
    /\ lpc' = "main_filtered"
    /\ UNCHANGED <<storeVars, runVars, fmt_keys, record, envelope, fmt_raised>>

\* the persuader-helper channel's filter is asked about the record
FilterHelper ==
    /\ lpc = "main_filtered"
    /\ accepted' = IF PersuadorHelperFilter(record)
                   THEN accepted \cup {"persuador_helper"} ELSE accepted
    /\ lpc' = "filtered"
    /\ UNCHANGED <<storeVars, runVars, fmt_keys, record, envelope, fmt_raised>>

\* MyJSONFormatter.format is called on the record
Format ==
    /\ lpc = "filtered"
    /\ LET out == prepare_log_dict(fmt_keys, record)
       IN  /\ fmt_raised' = out.raised
           /\ envelope' = out.message
    /\ lpc' = "formatted"
    /\ UNCHANGED <<storeVars, runVars, fmt_keys, record, accepted>>

(***************************************************************************)
(* The specifications                                                      *)
(***************************************************************************)

\* no caller has called save_debate_in_excel yet
StoreIdle ==
    /\ held = {}
    /\ pc = [c \in Callers |-> "idle"]
    /\ elapsed = [c \in Callers |-> 0]
    /\ df = [c \in Callers |-> <<>>]
    /\ read_failed = [c \in Callers |-> FALSE]
    /\ cause = [c \in Callers |-> "none"]
    /\ result = [c \in Callers |-> "pending"]
    /\ logged = {}

\* main() has parsed its command line
MainStarted ==
    /\ mpc = "start"
    /\ helper_types = <<>>
    /\ runs = <<>>
    /\ total_runs = 0
    /\ next_run = 1
    /\ successful_runs = 0
    /\ failed_runs = 0
    /\ invoked = <<>>
    /\ last_outcome = "none"
    /\ printed = <<>>
    /\ exit_status = -1

\* no record has been logged
LogIdle ==
    /\ fmt_keys = <<>>
    /\ record = [msg |-> "hello", created |-> 0, attrs |-> [a \in {"levelname"} |-> "INFO"]]
    /\ lpc = "emitted"
    /\ accepted = {}
    /\ envelope = <<>>
    /\ fmt_raised = FALSE

DefaultArgs ==
    [helper_types |-> <<>>, claim_indexes |-> <<>>,
     sequential |-> FALSE, list_helpers |-> FALSE]

InitStore ==
    /\ excel_file \in InitialFiles
    /\ StoreIdle
    /\ args = DefaultArgs
    /\ config = [kind |-> "mapping", helpers |-> KnownHelpers]
    /\ MainStarted
    /\ LogIdle

NextStore ==
    \/ \E c \in Callers :
          \/ Call(c)
          \/ Acquire(c)
          \/ Timeout(c)
          \/ Load(c)
          \/ Save(c)
          \/ SaveFails(c)
          \/ ReturnTrue(c)
          \/ ReturnFalse(c)
    \/ Tick

SpecStore == InitStore /\ [][NextStore]_vars

\* the callers of the runs in which a process may die
Mortal == 1 .. NumMortal

InitCrash ==
    /\ excel_file \in {AbsentFile, TableFile(<<old_row>>)}
    /\ held = {}
    /\ pc = [c \in Callers |-> IF c \in Mortal THEN "idle" ELSE "absent"]
    /\ elapsed = [c \in Callers |-> 0]
    /\ df = [c \in Callers |-> <<>>]
    /\ read_failed = [c \in Callers |-> FALSE]
    /\ cause = [c \in Callers |-> "none"]
    /\ result = [c \in Callers |-> "pending"]
    /\ logged = {}
    /\ args = DefaultArgs
    /\ config = [kind |-> "mapping", helpers |-> KnownHelpers]
    /\ MainStarted
    /\ LogIdle

NextCrash ==
    \/ \E c \in Mortal :
          \/ Call(c)
          \/ Acquire(c)
          \/ Timeout(c)
          \/ Load(c)
          \/ Save(c)
          \/ SaveFails(c)
          \/ ReturnTrue(c)
          \/ ReturnFalse(c)
          \/ WriterDies(c)
    \/ Tick

\* a live caller goes on: polling ends in the lock or in Timeout, each
\* statement inside `with lock:` ends
FairCrash ==
    /\ WF_vars(Tick)
    /\ \A c \in Mortal :
          /\ WF_vars(Acquire(c))
          /\ WF_vars(Timeout(c))
          /\ WF_vars(Load(c))
          /\ WF_vars(Save(c) \/ SaveFails(c))
          /\ WF_vars(ReturnTrue(c))
          /\ WF_vars(ReturnFalse(c))

SpecCrash == InitCrash /\ [][NextCrash]_vars /\ FairCrash

InitRuns ==
    /\ excel_file = AbsentFile
    /\ StoreIdle
    /\ args \in ArgSets
    /\ config \in ConfigFiles
    /\ MainStarted
    /\ LogIdle

NextRuns ==
    \/ ListHelpers
    \/ GetHelperTypes
    \/ ValidateHelperTypes
    \/ PrepareRuns
    \/ RunSingleDebate
    \/ Summary

SpecRuns == InitRuns /\ [][NextRuns]_vars

InitLog ==
    /\ excel_file = AbsentFile
    /\ StoreIdle
    /\ args = DefaultArgs
    /\ config = [kind |-> "mapping", helpers |-> KnownHelpers]
    /\ MainStarted
    /\ fmt_keys \in FmtKeySets
    /\ record \in Records
    /\ lpc = "emitted"
    /\ accepted = {}
    /\ envelope = <<>>
    /\ fmt_raised = FALSE

NextLog ==
    \/ FilterMain
    \/ FilterHelper
    \/ Format

SpecLog == InitLog /\ [][NextLog]_vars

Spec == SpecStore

(***************************************************************************)
(* The result store: properties checked under SpecStore                    *)
(***************************************************************************)

\* the rows a reader of the table gets
ReadableRows == IF excel_file.parsable THEN excel_file.rows ELSE <<>>

IsPrefix(s, t) == Len(s) <= Len(t) /\ \A i \in 1 .. Len(s) : s[i] = t[i]

\* how often row r occurs among rows
Occurrences(rows, r) == Cardinality({i \in 1 .. Len(rows) : rows[i] = r})

\* the dataframe a caller builds from the file as it is now
FrameFromFile(c) ==
    IF excel_file.exists /\ excel_file.parsable
    THEN Append(excel_file.rows, new_row(c))
    ELSE <<new_row(c)>>

AllDone == \A c \in Callers : pc[c] = "done"

\* C1: at most one caller holds the lock file at any time, and the
\* read-modify-write cycles do not interleave: at most one caller is inside
\* `with lock:`, it is the holder, and while a caller is between its load and
\* its persist the file still is what it loaded (nobody else persisted).
C1_Serialized ==
    /\ Cardinality(held) <= 1
    /\ \A c \in Callers : pc[c] \in InLock <=> c \in held
    /\ \A c, d \in Callers : c # d => ~(pc[c] \in InLock /\ pc[d] \in InLock)
    /\ \A c \in Callers : pc[c] = "loaded" => df[c] = FrameFromFile(c)

\* C1 witness: one caller is between load and persist of a table that
\* already holds another caller's row, while a third caller waits.
C1_Contended ==
    \E c, d, e \in Callers :
        /\ pc[c] = "loaded" /\ pc[d] = "waiting" /\ result[e] = "True"
        /\ Len(df[c]) >= 2

\* C2 as stated: once all N calls have finished without an I/O error, the
\* table holds the record of every caller exactly once, N new rows in all.
C2_AllRowsPresent ==
    (AllDone /\ \A c \in Callers : cause[c] # "write_error")
        => /\ excel_file.exists /\ excel_file.parsable
           /\ \A c \in Callers : Occurrences(ReadableRows, new_row(c)) = 1
           /\ Cardinality({i \in 1 .. Len(ReadableRows) :
                              ReadableRows[i] # old_row}) = NumCallers

\* C2 amended: the table never holds a record twice, an altered record or
\* the record of a call that did not return True; once all calls have
\* finished and no persist failed it holds the record of every call that
\* returned True exactly once; so it holds exactly N new rows when all N
\* calls returned True.
C2_RowsOfSucceededCalls ==
    /\ \A i \in 1 .. Len(ReadableRows) :
          \/ ReadableRows[i] = old_row
          \/ \E c \in Callers :
                /\ ReadableRows[i] = new_row(c)
                /\ pc[c] \in {"saved", "done"}
                /\ pc[c] = "done" => result[c] = "True"
    /\ \A c \in Callers : Occurrences(ReadableRows, new_row(c)) <= 1
    /\ (AllDone /\ \A c \in Callers : cause[c] # "write_error")
          => \A c \in Callers :
                result[c] = "True" => Occurrences(ReadableRows, new_row(c)) = 1
    /\ (AllDone /\ \A c \in Callers : result[c] = "True")
          => Cardinality({i \in 1 .. Len(ReadableRows) :
                             ReadableRows[i] # old_row}) = NumCallers

\* C2 witness: every caller has returned True and the table holds all rows.
C2_AllSucceeded ==
    /\ \A c \in Callers : result[c] = "True"
    /\ excel_file.parsable
    /\ Len(ReadableRows) >= NumCallers

\* C3: a caller that has waited longer than the timeout can end its wait at
\* once (it acquires or times out); the step that times out returns False,
\* leaves the table and the lock as they were; a finished call is not taken
\* up again, and the record of a timed-out call never is in the table.
C3_TimeoutFails ==
    /\ [](\A c \in Callers :
            (pc[c] = "waiting" /\ elapsed[c] > LockTimeout)
                => ENABLED (Acquire(c) \/ Timeout(c)))
    /\ [](\A c \in Callers :
            cause[c] = "timeout"
                => /\ pc[c] = "done" /\ result[c] = "False"
                   /\ Occurrences(ReadableRows, new_row(c)) = 0)
    /\ [][\A c \in Callers :
            /\ (pc[c] = "waiting" /\ pc'[c] = "done")
                  => /\ result'[c] = "False"
                     /\ excel_file' = excel_file
                     /\ held' = held
            /\ pc[c] = "done" => (pc'[c] = "done" /\ result'[c] = result[c])]_vars

\* C3 witness: a caller has timed out while the others stored their rows.
C3_TimedOut ==
    \E c \in Callers :
        /\ cause[c] = "timeout" /\ result[c] = "False"
        /\ excel_file.parsable /\ Len(ReadableRows) >= 2

\* C4: a caller whose read of the existing file raised has logged the read
\* error and goes on with a dataframe of its own row only; what it persists
\* is the table with exactly that row; it returns True unless to_excel
\* itself raises.
C4_CorruptRecovered ==
    \A c \in Callers :
        read_failed[c] =>
            /\ LogRec("error", "Error reading existing Excel file", c) \in logged
            /\ pc[c] \in {"loaded", "saved", "failed", "done"}
            /\ df[c] = <<new_row(c)>>
            /\ pc[c] = "saved" => excel_file = TableFile(<<new_row(c)>>)
            /\ pc[c] = "done" =>
                  \/ cause[c] = "saved" /\ result[c] = "True"
                  \/ cause[c] = "write_error"

\* C4 witness: the read raised, the call returned True and the table holds
\* exactly the new row.
C4_Recreated ==
    \E c \in Callers :
        /\ read_failed[c] /\ result[c] = "True"
        /\ excel_file = TableFile(<<new_row(c)>>)

\* C5 as stated: no step of the store changes or drops a stored row: the
\* rows stored before a step are a prefix of the rows stored after it.
C5_NeverMutates ==
    [][IsPrefix(excel_file.rows, excel_file'.rows)]_vars

\* C5 amended: a successful persist of a caller that could parse the table
\* (or found no file) leaves the stored rows unchanged and in order and adds
\* the new row at the end; the persist of a caller whose read raised
\* replaces the table by one that holds its row only; no other step changes
\* the stored rows.
C5_AppendAtEnd ==
    [][\/ \E c \in Callers :
             /\ pc[c] = "loaded" /\ pc'[c] = "saved"
             /\ excel_file'.parsable
             /\ excel_file'.rows = IF read_failed[c] THEN <<new_row(c)>>
                                   ELSE Append(excel_file.rows, new_row(c))
       \/ excel_file'.rows = excel_file.rows
      ]_vars

\* C5 witness: three appends in a row on top of the row of an earlier run.
C5_Grown ==
    /\ excel_file.parsable
    /\ Len(excel_file.rows) >= 4
    /\ excel_file.rows[1] = old_row

(***************************************************************************)
(* The orchestrator: properties checked under SpecRuns                     *)
(***************************************************************************)

\* the helper types settings.yaml makes known
Known == get_available_helper_types(config).helpers

\* the helper types the run is about: the requested ones, or all known ones
Variants == IF args.helper_types # <<>> THEN args.helper_types ELSE Known

RequestedUnknown ==
    \E i \in 1 .. Len(args.helper_types) : ~InSeq(args.helper_types[i], Known)

PrintedKind(kind) == \E i \in 1 .. Len(printed) : printed[i].kind = kind

\* C6: when a requested helper type is not a known one, no plan entry is
\* produced for any helper type, main never gets to prepare or execute, and
\* subprocess.run is never called.
C6_UnknownVariantNoPlan ==
    RequestedUnknown =>
        /\ runs = <<>> /\ total_runs = 0
        /\ invoked = <<>>
        /\ mpc \in {"start", "validate", "exited"}
        /\ ~PrintedKind("plan") /\ ~PrintedKind("summary")

\* C6 witness: a valid and an unknown helper type were requested and main
\* has returned after reporting the invalid one.
C6_Rejected ==
    /\ args.helper_types = <<"vanilla", "bogus">>
    /\ Known = KnownHelpers
    /\ mpc = "exited"
    /\ PrintedKind("invalid_helper_types")

\* C7: while the plan is executed, successful_runs + failed_runs is the
\* number of invocations that have returned and total_runs is len(runs);
\* the printed summary has succeeded + failed = total = len(runs).
C7_CountsAddUp ==
    /\ mpc = "execute" =>
          /\ successful_runs + failed_runs = Len(invoked)
          /\ total_runs = Len(runs)
    /\ \A i \in 1 .. Len(printed) :
          printed[i].kind = "summary" =>
              /\ printed[i].nums[2] + printed[i].nums[3] = printed[i].nums[1]
              /\ printed[i].nums[1] = Len(runs)
              /\ Len(invoked) = Len(runs)

\* C7 witness: a summary of a plan with successes and failures.
C7_MixedSummary ==
    /\ PrintedKind("summary")
    /\ successful_runs >= 1 /\ failed_runs >= 2

\* C8: the commands given to subprocess.run are those of the plan entries
\* before next_run, in plan order, one each; the summary comes only after
\* the last entry; the plan does not change once execution has begun; every
\* invocation, failed or not, moves on to the next entry, and a failed one
\* (non-zero exit or exception) adds one to failed_runs.
C8_OncePerEntryInOrder ==
    /\ [](mpc = "execute" =>
            /\ next_run \in 1 .. Len(runs) + 1
            /\ invoked = [i \in 1 .. next_run - 1 |-> Cmd(runs[i])])
    /\ [](PrintedKind("summary") =>
            invoked = [i \in 1 .. Len(runs) |-> Cmd(runs[i])])
    /\ [][/\ mpc = "execute" => runs' = runs
          /\ invoked' # invoked =>
                /\ next_run' = next_run + 1
                /\ mpc' = "execute"
                /\ last_outcome' # "exit0" =>
                      /\ failed_runs' = failed_runs + 1
                      /\ successful_runs' = successful_runs
                /\ last_outcome' = "exit0" =>
                      /\ successful_runs' = successful_runs + 1
                      /\ failed_runs' = failed_runs]_vars

\* C8 witness: an entry was invoked after an earlier invocation had failed.
C8_ContinuedAfterFailure ==
    /\ mpc = "execute"
    /\ failed_runs >= 1
    /\ last_outcome = "exit0"
    /\ Len(invoked) >= 2

C10_OneEntryPerVariant ==
    (/\ config.kind # "notmapping"
     /\ ~RequestedUnknown
     /\ ~args.sequential
     /\ ~args.list_helpers)
        => /\ ~PrintedKind("invalid_helper_types") /\ ~PrintedKind("traceback")
           /\ mpc = "exited" => (PrintedKind("summary") \/ Variants = <<>>)
           /\ (mpc = "execute" \/ mpc = "exited") =>
                 /\ Len(runs) = Len(Variants)
                 /\ total_runs = Len(Variants)
                 /\ \A i \in 1 .. Len(runs) : runs[i][1] = Variants[i]

\* C10 witness: no helper type and two claim indexes requested, not
\* sequential: the plan has one entry per known helper type.
C10_DefaultPlan ==
    /\ args.helper_types = <<>> /\ ~args.sequential
    /\ Len(args.claim_indexes) = 2
    /\ mpc = "exited"
    /\ runs = << <<"vanilla", NoneIndex>>, <<"fallacy", NoneIndex>> >>

\* the plan has been built
Planned == PrintedKind("plan")

\* C11: with --sequential and a non-empty --claim_indexes the plan holds,
\* for each helper type in request order, one entry per claim index in the
\* order given (helper-major), len(helper_types) * len(claim_indexes) entries
\* in all, and they are invoked in that order.
C11_SequentialPlan ==
    (Planned /\ args.sequential /\ args.claim_indexes # <<>>) =>
        LET n == Len(args.claim_indexes)
        IN  /\ Len(runs) = Len(Variants) * n
            /\ \A v \in 1 .. Len(Variants) : \A j \in 1 .. n :
                  runs[(v - 1) * n + j] = <<Variants[v], args.claim_indexes[j]>>
            /\ IsPrefix(invoked, [i \in 1 .. Len(runs) |-> Cmd(runs[i])])
            /\ PrintedKind("summary") => Len(invoked) = Len(runs)

\* C11 witness: known vanilla and fallacy, requested vanilla with claim
\* indexes 1, 2 and --sequential: (vanilla, 1) then (vanilla, 2) were invoked.
C11_VanillaTwice ==
    /\ Known = KnownHelpers
    /\ args.helper_types = <<"vanilla">> /\ args.claim_indexes = <<1, 2>>
    /\ args.sequential
    /\ mpc = "exited"
    /\ runs = << <<"vanilla", 1>>, <<"vanilla", 2>> >>
    /\ invoked = <<Cmd(<<"vanilla", 1>>), Cmd(<<"vanilla", 2>>)>>

\* C14: when settings.yaml cannot be opened or parsed, or does not load as
\* a mapping, no plan is built, not even a partial one, and subprocess.run
\* is never called.
C14_BadConfigNoPlan ==
    config.kind \in {"unreadable", "notmapping"} =>
        /\ runs = <<>> /\ total_runs = 0
        /\ invoked = <<>>
        /\ mpc \in {"start", "validate", "exited"}
        /\ ~Planned /\ ~PrintedKind("summary")

\* C14 witness: settings.yaml is unreadable, a helper type was requested
\* and main has ended without a plan.
C14_UnreadableStopped ==
    /\ config.kind = "unreadable"
    /\ args.helper_types = <<"vanilla">> /\ ~args.list_helpers
    /\ mpc = "exited"
    /\ PrintedKind("invalid_helper_types")

\* C15: when the plan is built without --sequential or without
\* --claim_indexes, every entry carries the claim index if exactly one was
\* requested, and none (None) if zero or two or more were requested.
C15_SubIndexOnlyIfSingle ==
    (Planned /\ ~(args.sequential /\ args.claim_indexes # <<>>)) =>
        \A i \in 1 .. Len(runs) :
            runs[i][2] = IF Len(args.claim_indexes) = 1 THEN args.claim_indexes[1]
                         ELSE NoneIndex

\* C15 witness: two claim indexes requested without --sequential, and the
\* plan entries carry none.
C15_TwoIndexesCollapsed ==
    /\ Planned /\ ~args.sequential
    /\ Len(args.claim_indexes) = 2
    /\ Len(runs) = 2
    /\ \A i \in 1 .. Len(runs) : runs[i][2] = NoneIndex

\* C18 as stated: every run that is not a --list_helpers run has printed the
\* summary when it ends (settings.yaml being a mapping with its helper types).
C18_SummaryAlways ==
    (mpc = "exited" /\ ~args.list_helpers /\ Known = KnownHelpers)
        => PrintedKind("summary")

\* C18 amended: a run that gets to build its plan (some helper type to run,
\* all of them known) ends with the summary of total_runs, successful_runs
\* and failed_runs as the last thing printed; a run that ends before the
\* plan (no helper types, invalid helper types, uncaught exception) prints
\* no summary.
C18_SummaryIffPlanned ==
    mpc = "exited" =>
        /\ PrintedKind("summary") <=> Planned
        /\ Planned =>
              printed[Len(printed)] =
                  PrintRec("summary", <<total_runs, successful_runs, failed_runs>>)
        /\ (/\ config.kind # "notmapping" /\ ~args.list_helpers
            /\ ~RequestedUnknown /\ Variants # <<>>) => Planned

\* C18 witness: a run with a failed invocation has ended after its summary.
C18_SummaryThenExit ==
    /\ mpc = "exited" /\ exit_status = 1
    /\ Planned
    /\ printed[Len(printed)].kind = "summary"

(***************************************************************************)
(* Claims about the log formatter and the channel filters                  *)
(***************************************************************************)

\* the record carries msg_type with this value
TaggedAs(tag) == "msg_type" \in DOMAIN record.attrs /\ record.attrs["msg_type"] = tag

\* both filters have been asked
Filtered == lpc \in {"filtered", "formatted"}

\* format returned a dict
Formatted == lpc = "formatted" /\ ~fmt_raised

\* the field-order spec names this computed value as a source
Sourced(c) == \E i \in 1 .. Len(fmt_keys) : fmt_keys[i].source = c

\* the key the field-order spec declares for a source it names
KeyOf(c) == fmt_keys[CHOOSE i \in 1 .. Len(fmt_keys) : fmt_keys[i].source = c].key

\* the envelope has value v under key k
Holds(k, v) == HasKey(envelope, k) /\ DictVal(envelope, k) = v

\* C12: once both filters were asked, the main-debate channel has the
\* record iff its msg_type is "main debate", the persuader-helper channel
\* iff its msg_type is "persuador_helper"; a record with another tag or
\* none is on neither channel, and no record is on both.
C12_FilterDelivery ==
    Filtered =>
        /\ ("main debate" \in accepted) <=> TaggedAs("main debate")
        /\ ("persuador_helper" \in accepted) <=> TaggedAs("persuador_helper")
        /\ (~TaggedAs("main debate") /\ ~TaggedAs("persuador_helper")) => accepted = {}
        /\ accepted # {"main debate", "persuador_helper"}

\* a "main debate" record with speaker and round, no fmt_keys: on the main
\* channel only, formatted with message, timestamp, speaker and round
C12_MainDebateOnly ==
    /\ lpc = "formatted"
    /\ fmt_keys = <<>>
    /\ TaggedAs("main debate")
    /\ DOMAIN record.attrs = {"levelname", "msg_type", "speaker", "round"}
    /\ accepted = {"main debate"}
    /\ Holds("message", "hello") /\ Holds("speaker", "pro") /\ Holds("round", "3")
    /\ HasKey(envelope, "timestamp")

\* C13 as stated: every envelope format returns has the message text under
\* "message" and the timestamp under "timestamp".
C13_MessageAndTimestamp ==
    Formatted =>
        /\ Holds("message", getMessage(record))
        /\ Holds("timestamp", IsoFormat(record.created))

\* a computed value is in the envelope under its own name when the
\* field-order spec does not name it as a source, and under the key declared
\* for it when it does, unless that key is the other computed value's name
\* and the other value is not itself named as a source
HeldWhereDeclared(c, other, v) ==
    IF ~Sourced(c) THEN Holds(c, v)
    ELSE IF KeyOf(c) = other /\ ~Sourced(other) THEN ~Holds(KeyOf(c), v)
    ELSE Holds(KeyOf(c), v)

\* C13: when format returns an envelope, the message text is under
\* "message", or under the key the field-order spec declares for the source
\* "message"; the timestamp likewise; a computed value declared under the
\* other one's name is overwritten when the other one is not declared.
C13_ComputedWhereDeclared ==
    Formatted =>
        /\ HeldWhereDeclared("message", "timestamp", getMessage(record))
        /\ HeldWhereDeclared("timestamp", "message", IsoFormat(record.created))

\* the message text was declared under "msg": the envelope has no "message"
C13_Renamed ==
    /\ Formatted
    /\ Sourced("message") /\ KeyOf("message") = "msg"
    /\ Holds("msg", getMessage(record))
    /\ ~HasKey(envelope, "message")
    /\ Holds("timestamp", IsoFormat(record.created))

\* the declared keys, in declared order
DeclaredKeys == [i \in 1 .. Len(fmt_keys) |-> fmt_keys[i].key]

\* the actor fields on the record that are not declared keys
ActorPart ==
    SelectSeq(ActorAttrs, LAMBDA a : a \in DOMAIN record.attrs /\ ~InSeq(a, DeclaredKeys))

\* the computed values no declared key drew and whose name is no declared key
ComputedPart ==
    SelectSeq(<<"message", "timestamp">>, LAMBDA c : ~Sourced(c) /\ ~InSeq(c, DeclaredKeys))

\* C16: the keys of the envelope are the declared keys in declared order,
\* then the actor fields present on the record and not yet a key, in the
\* fixed order, then the computed values not yet emitted; no key twice.
C16_KeyOrder ==
    Formatted =>
        /\ DictKeys(envelope) = DeclaredKeys \o ActorPart \o ComputedPart
        /\ \A i, j \in 1 .. Len(envelope) : i # j => envelope[i].key # envelope[j].key

\* all three parts at once: speaker declared, msg_type and round from the
\* record, both computed values last
C16_ThreeParts ==
    /\ Formatted
    /\ fmt_keys = <<[key |-> "speaker", source |-> "speaker"]>>
    /\ DictKeys(envelope) = <<"speaker", "msg_type", "round", "message", "timestamp">>

\* C17 as stated: formatting raises no error and puts no placeholder in the
\* envelope for an attribute the record does not have.
C17_AbsentOmitted ==
    lpc = "formatted" =>
        /\ ~fmt_raised
        /\ \A i \in 1 .. Len(envelope) : envelope[i].val # "None"

(***************************************************************************)
(* Claims about a writer that dies, and about what a call returns          *)
(***************************************************************************)

\* every caller but c has returned, died, or never called
OnlyLive(c) == \A d \in Callers \ {c} : pc[d] \in {"done", "crashed", "absent"}

\* some caller died inside `with lock:`
SomeoneDied == \E d \in Callers : pc[d] = "crashed"

C20_ReleasedAndBoolean ==
    \A c \in Callers :
        /\ pc[c] = "done" =>
              /\ c \notin held
              /\ result[c] \in {"True", "False"}
              /\ result[c] = "True" <=> cause[c] = "saved"
              /\ result[c] = "False" <=> cause[c] \in {"timeout", "write_error"}
        /\ pc[c] = "saved" =>
              /\ c \in held
              /\ excel_file = TableFile(df[c])
              /\ Len(df[c]) >= 1 /\ df[c][Len(df[c])] = new_row(c)
        /\ pc[c] # "done" => result[c] = "pending"

\* the lock is free after one call returned False on a write error that
\* followed a read error and another call returned True
C20_BothPathsReleased ==
    \E c, d \in Callers :
        /\ pc[c] = "done" /\ result[c] = "False" /\ cause[c] = "write_error"
        /\ read_failed[c]
        /\ pc[d] = "done" /\ result[d] = "True"
        /\ held = {}

====
